---- MODULE Spec2Model ----
(***************************************************************************)
(* Model of src/src/utils.js: fetchReviews (one request + envelope         *)
(* decoding), fetchWithRetry (exponential-backoff retry loop) and          *)
(* paginateReviews (cursor-driven pagination driver).                      *)
(*                                                                         *)
(* JavaScript runs each function to its next await without interruption,  *)
(* so every action below is the code between two suspension points.       *)
(***************************************************************************)
EXTENDS Integers, Sequences, FiniteSets, TLC

(***************************************************************************)
(* Bounds of the model.                                                    *)
(***************************************************************************)
\* Largest finite page budget the caller passes.
MaxBudget == 3
\* Longest cursor chain the provider serves (number of follow-up pages).
MaxChain == 3
\* Largest maxRetries argument tried when fetchWithRetry is called directly.
MaxRetriesArg == 3
\* Longest cursor string tried when cursor strings are enumerated.
MaxCursorLen == 4
\* Longest response text tried, in tokens, when response texts are enumerated.
MaxTextLen == 5

(***************************************************************************)
(* Program constants.                                                      *)
(***************************************************************************)
DefaultMaxRetries == 3
DefaultBaseDelay == 2000
InterPageDelay == 1000
FirstFollowUpPage == 2

(***************************************************************************)
(* JSON values.  A string is a sequence of characters; DQ is the double    *)
(* quote character.                                                        *)
(***************************************************************************)
DQ == "\""

\* The value at index 1 of a decoded response (the cursor position).
JNull == [kind |-> "null", chars |-> <<>>]
JStr(s) == [kind |-> "string", chars |-> s]
\* A number, boolean, array or object: not nullish, and without a replace method.
JOther == [kind |-> "other", chars |-> <<>>]

\* The value at index 2 of a decoded response (the batch position).
BAbsent == [kind |-> "absent", items |-> <<>>]
BOther == [kind |-> "other", items |-> <<>>]
BArr(s) == [kind |-> "array", items |-> s]

\* What JSON.parse yields: null, a scalar, or an indexable value (a Page).
VNull == [kind |-> "null", cursor |-> JNull, batch |-> BAbsent]
VScalar == [kind |-> "scalar", cursor |-> JNull, batch |-> BAbsent]
VPage(c, b) == [kind |-> "page", cursor |-> c, batch |-> b]

\* Cursors the provider sends that lead on, and values that end the chain.
LeadingCursors == {JStr(<<DQ, "a", DQ>>), JStr(<<DQ, "b", DQ>>)}
EndingCursors == {JNull, JStr(<<DQ, DQ>>)}
NonEmptyBatches == {BArr(<<"r1">>), BArr(<<"r2", "r1">>)}
EmptyBatches == {BAbsent, BOther, BArr(<<>>)}

(***************************************************************************)
(* fetchReviews: one request.  A response of the environment says where    *)
(* the attempt fails, if it does, and the JSON value behind the marker.    *)
(***************************************************************************)
Failures == {"builder", "network", "status", "marker", "json"}

Resp(f, v) == [fail |-> f, value |-> v]

\* The responses the environment can give to the request for follow-up page k.
Responses(k) ==
    {Resp(f, VNull) : f \in Failures}
    \cup {Resp("none", VNull), Resp("none", VScalar)}
    \cup {Resp("none", VPage(c, b)) : c \in {JNull, JStr(<<DQ, "a", DQ>>)}, b \in EmptyBatches}
    \cup {Resp("none", VPage(c, b)) :
            c \in (IF k < MaxChain THEN LeadingCursors ELSE {}) \cup EndingCursors \cup {JOther},
            b \in NonEmptyBatches}

Thrown == [kind |-> "thrown", value |-> VNull]
Value(v) == [kind |-> "value", value |-> v]
NoOutcome == [kind |-> "none", value |-> VNull]

\* Lines 42-60: the request builder, fetch, the status test, the marker split
\* and JSON.parse each throw on failure; otherwise the parsed value is returned.
FetchReviews(r) ==
    IF r.fail = "builder" THEN Thrown
    ELSE IF r.fail = "network" THEN Thrown
    ELSE IF r.fail = "status" THEN Thrown
    ELSE IF r.fail = "marker" THEN Thrown
    ELSE IF r.fail = "json" THEN Thrown
    ELSE Value(r.value)

VARIABLES
    \* paginateReviews
    pages, clean, initialData, reviews, nextPage, currentPage, pc, result,
    \* fetchWithRetry
    cursorArg, maxRetries, baseDelay, attempt, fpc, outcome, data, delay,
    \* fetchReviews: the response body being decoded
    text,
    \* history
    got, attempts, tries, errs, anoms, slept, sentinelPage, parserArgs, pauses, sent,
    \* the call running now, and the other call of the process, suspended
    self, other

vars == <<pages, clean, initialData, reviews, nextPage, currentPage, pc, result,
          cursorArg, maxRetries, baseDelay, attempt, fpc, outcome, data, delay, text,
          got, attempts, tries, errs, anoms, slept, sentinelPage, parserArgs, pauses, sent,
          self, other>>

driverVars == <<pages, clean, initialData, reviews, nextPage, currentPage, pc, result>>
fetchVars == <<cursorArg, maxRetries, baseDelay, attempt, fpc, outcome, data, delay>>
histVars == <<got, attempts, tries, errs, anoms, slept, sentinelPage, parserArgs, pauses, sent>>
worldVars == <<text, self, other>>


(***************************************************************************)
(* Pure helpers of fetchWithRetry.                                         *)
(***************************************************************************)
\* The value fetchWithRetry returns when no data could be obtained.
Sentinel == VNull

\* Mutant: one attempt too many.
AttemptsRemainOneMore(a, mr) == a <= mr + 1

\* Line 76: the for-loop condition.
AttemptsRemain(a, mr) == a <= mr

\* Line 81: data[2] on null raises a TypeError inside the try block, like a
\* rejection of the awaited fetchReviews on line 78.
TryThrows(o) == o.kind = "thrown" \/ (o.kind = "value" /\ o.value.kind = "null")

\* Mutant: a batch of one record does not count as data.
IsValidDataMoreThanOne(d) == d.batch.kind = "array" /\ Len(d.batch.items) > 1

\* Mutant: an empty array counts as data.
IsValidDataAnyArray(d) == d.batch.kind = "array"

\* Line 81: Array.isArray(data[2]) && data[2].length > 0.
IsValidData(d) == d.batch.kind = "array" /\ Len(d.batch.items) > 0

\* Lines 86 and 92: is a retry left after this attempt.
RetryLeft(a, mr) == a < mr

\* Mutant: linear backoff.
BackoffDelayLinear(base, a) == base * (a + 1)

\* Lines 87 and 93: baseDelay * Math.pow(2, attempt).
BackoffDelay(base, a) == base * 2^a

(***************************************************************************)
(* Pure helpers of paginateReviews.                                        *)
(***************************************************************************)
Undefined == [kind |-> "undefined", chars |-> <<>>]
TypeError == [kind |-> "TypeError", chars |-> <<>>]

IsNotQuote(ch) == ch # DQ

\* Mutant: only one leading and one trailing quote are removed.
StripWrapping(s) ==
    LET t == IF s # <<>> /\ Head(s) = DQ THEN Tail(s) ELSE s IN
      IF t # <<>> /\ t[Len(t)] = DQ THEN SubSeq(t, 1, Len(t) - 1) ELSE t

\* s.replace(/"/g, ""): every double quote character is removed.
StripQuotes(s) == SelectSeq(s, IsNotQuote)

\* Mutant: the quotes are left in place.
OptReplaceKeepsQuotes(c) ==
    IF c.kind = "null" THEN Undefined
    ELSE IF c.kind = "string" THEN [kind |-> "string", chars |-> c.chars]
    ELSE TypeError

\* Lines 118 and 135: x?.replace(/"/g, "").  Nullish x gives undefined, a
\* string gives the stripped string, any other value has no replace method.
OptReplace(c) ==
    IF c.kind = "null" THEN Undefined
    ELSE IF c.kind = "string" THEN [kind |-> "string", chars |-> StripQuotes(c.chars)]
    ELSE TypeError

\* Truthiness of nextPage: undefined and the empty string are falsy.
Truthy(n) == n.kind = "string" /\ n.chars # <<>>

\* Line 117: initialData[2] || [].
InitialReviews(p) == IF p.batch.kind = "array" THEN p.batch.items ELSE <<>>

\* Mutant: the budget test is strict.
LoopCondStrict(n, pg, cp) == Truthy(n) /\ (pg.max \/ cp < pg.n)

\* Mutant: the budget is not tested.
LoopCondNoBudget(n, pg, cp) == Truthy(n)

\* Line 123: nextPage && (pages === "max" || currentPage <= +pages).
LoopCond(n, pg, cp) == Truthy(n) /\ (pg.max \/ cp <= pg.n)

\* Line 128: !data || !Array.isArray(data[2]).
DriverStops(d) == d.kind = "null" \/ d.batch.kind # "array"

\* Mutant: the new batch is put in front.
AppendBatchInFront(rs, b) == b \o rs

\* Mutant: the new batch takes the place of the accumulated sequence.
AppendBatchReplace(rs, b) == b

\* Line 134: [...reviews, ...data[2]].
AppendBatch(rs, b) == rs \o b

\* The cleaning transform (parser.js): the cleaned form of a whole sequence.
parser(rs) == [cleaned |-> TRUE, items |-> rs]

NoResult == [cleaned |-> FALSE, items |-> <<>>]

(***************************************************************************)
(* Inputs.                                                                 *)
(***************************************************************************)
Max == [max |-> TRUE, n |-> 0]
Budget(b) == [max |-> FALSE, n |-> b]
Budgets == {Max} \cup {Budget(b) : b \in 0..MaxBudget}

FirstPages ==
    {VPage(c, b) : c \in {JNull, JStr(<<DQ, "a", DQ>>), JOther},
                   b \in {BAbsent, BArr(<<>>), BArr(<<"r1", "r2">>)}}

BaseDelays == {1, DefaultBaseDelay}

\* No other call is in progress.
NoCall == [pc |-> "none"]

NoHistory ==
    /\ got = <<>>
    /\ attempts = 0
    /\ tries = 0
    /\ errs = 0
    /\ anoms = 0
    /\ slept = <<>>
    /\ sentinelPage = 0
    /\ parserArgs = <<>>
    /\ pauses = <<>>
    /\ sent = Undefined

\* A call of paginateReviews(url, sort, pages, search_query, clean, initialData).
Init ==
    /\ pages \in Budgets
    /\ clean \in BOOLEAN
    /\ initialData \in FirstPages
    /\ reviews = <<>>
    /\ nextPage = Undefined
    /\ currentPage = 0
    /\ pc = "entry"
    /\ result = NoResult
    /\ cursorArg = Undefined
    /\ text = <<>>
    /\ self = 1
    /\ other = NoCall
    /\ maxRetries = DefaultMaxRetries
    /\ baseDelay = DefaultBaseDelay
    /\ attempt = 0
    /\ fpc = "idle"
    /\ outcome = NoOutcome
    /\ data = Sentinel
    /\ delay = 0
    /\ NoHistory

\* A direct call of fetchWithRetry(url, sort, nextPage, search_query, maxRetries, baseDelay).
InitFetch ==
    /\ pages = Max
    /\ clean = FALSE
    /\ initialData = VPage(JNull, BAbsent)
    /\ reviews = <<>>
    /\ nextPage = Undefined
    /\ currentPage = 0
    /\ pc = "direct"
    /\ result = NoResult
    /\ cursorArg \in {[kind |-> "string", chars |-> <<"a">>], [kind |-> "string", chars |-> <<>>]}
    /\ text = <<>>
    /\ self = 1
    /\ other = NoCall
    /\ maxRetries \in 0..MaxRetriesArg
    /\ baseDelay \in BaseDelays
    /\ attempt = 0
    /\ fpc = "loop"
    /\ outcome = NoOutcome
    /\ data = Sentinel
    /\ delay = 0
    /\ NoHistory

(***************************************************************************)
(* fetchWithRetry, lines 75-103.                                           *)
(***************************************************************************)
\* return v: the awaiting caller is resumed with v.
ReturnFromFetch(v) ==
    /\ fpc' = "returned"
    /\ data' = v
    /\ got' = IF v # Sentinel /\ pc = "await" THEN Append(got, v) ELSE got
    /\ sentinelPage' = IF v = Sentinel /\ pc = "await" THEN currentPage ELSE sentinelPage

\* Lines 89 and 95: setTimeout(resolve, delay).
StartSleep(d) ==
    /\ fpc' = "sleeping"
    /\ delay' = d
    /\ slept' = Append(slept, d)

\* Line 76 (loop test), then line 78 issues the request or line 102 returns null.
FetchLoop ==
    /\ fpc = "loop"
    /\ UNCHANGED worldVars
    /\ IF AttemptsRemain(attempt, maxRetries)
       THEN /\ fpc' = "inflight"
            /\ attempts' = attempts + 1
            /\ tries' = tries + 1
            /\ sent' = cursorArg
            /\ UNCHANGED <<data, got, sentinelPage>>
       ELSE /\ ReturnFromFetch(Sentinel)
            /\ UNCHANGED <<attempts, tries, sent>>
    /\ UNCHANGED <<cursorArg, maxRetries, baseDelay, attempt, outcome, delay>>
    /\ UNCHANGED <<errs, anoms, slept, parserArgs, pauses>>
    /\ UNCHANGED driverVars

\* Line 78: the awaited fetchReviews settles.
FetchSettle ==
    /\ fpc = "inflight"
    /\ UNCHANGED worldVars
    /\ \E r \in Responses(Len(got) + 1) : outcome' = FetchReviews(r)
    /\ fpc' = "settled"
    /\ UNCHANGED <<cursorArg, maxRetries, baseDelay, attempt, data, delay>>
    /\ UNCHANGED histVars
    /\ UNCHANGED driverVars

\* Lines 81-90: the rest of the try block, when nothing in it throws.
TryBody ==
    /\ fpc = "settled"
    /\ UNCHANGED worldVars
    /\ ~TryThrows(outcome)
    /\ outcome' = NoOutcome
    /\ IF IsValidData(outcome.value)
       THEN /\ ReturnFromFetch(outcome.value)
            /\ UNCHANGED <<attempt, delay, anoms, slept>>
       ELSE /\ anoms' = anoms + 1
            /\ IF RetryLeft(attempt, maxRetries)
               THEN /\ StartSleep(BackoffDelay(baseDelay, attempt))
                    /\ UNCHANGED attempt
               ELSE /\ fpc' = "loop"
                    /\ attempt' = attempt + 1
                    /\ UNCHANGED <<delay, slept>>
            /\ UNCHANGED <<data, got, sentinelPage>>
    /\ UNCHANGED <<cursorArg, maxRetries, baseDelay>>
    /\ UNCHANGED <<attempts, tries, errs, parserArgs, pauses, sent>>
    /\ UNCHANGED driverVars

\* Mutant: the last error is thrown on to the caller.
CatchRethrows ==
    /\ fpc' = "threw"
    /\ UNCHANGED <<data, got, sentinelPage>>

\* Lines 96-98: the last attempt threw; give up with null.
CatchExhausted == ReturnFromFetch(Sentinel)

\* Lines 91-100: the catch block.
CatchBody ==
    /\ fpc = "settled"
    /\ UNCHANGED worldVars
    /\ TryThrows(outcome)
    /\ outcome' = NoOutcome
    /\ errs' = errs + 1
    /\ IF RetryLeft(attempt, maxRetries)
       THEN /\ StartSleep(BackoffDelay(baseDelay, attempt))
            /\ UNCHANGED <<data, got, sentinelPage>>
       ELSE /\ CatchExhausted
            /\ UNCHANGED <<delay, slept>>
    /\ UNCHANGED <<cursorArg, maxRetries, baseDelay, attempt>>
    /\ UNCHANGED <<attempts, tries, anoms, parserArgs, pauses, sent>>
    /\ UNCHANGED driverVars

\* The backoff timer fires; the for-loop's attempt++ follows.
SleepDone ==
    /\ fpc = "sleeping"
    /\ UNCHANGED worldVars
    /\ fpc' = "loop"
    /\ attempt' = attempt + 1
    /\ delay' = 0
    /\ UNCHANGED <<cursorArg, maxRetries, baseDelay, outcome, data>>
    /\ UNCHANGED histVars
    /\ UNCHANGED driverVars

NextFetch == FetchLoop \/ FetchSettle \/ TryBody \/ CatchBody \/ SleepDone

SpecFetch == InitFetch /\ [][NextFetch]_vars

(***************************************************************************)
(* paginateReviews, lines 116-148.                                         *)
(***************************************************************************)
\* Lines 117-122.  The optional call on a cursor that is neither nullish nor
\* a string raises a TypeError, which leaves the function.
Enter ==
    /\ pc = "entry"
    /\ UNCHANGED worldVars
    /\ reviews' = InitialReviews(initialData)
    /\ LET n == OptReplace(initialData.cursor) IN
         IF n = TypeError
         THEN /\ pc' = "thrown"
              /\ UNCHANGED <<nextPage, currentPage>>
         ELSE /\ nextPage' = n
              /\ currentPage' = FirstFollowUpPage
              /\ pc' = "loop"
    /\ UNCHANGED <<pages, clean, initialData, result>>
    /\ UNCHANGED fetchVars
    /\ UNCHANGED histVars

\* Line 126: fetchWithRetry(url, sort, nextPage, search_query), with the
\* default maxRetries and baseDelay; the driver awaits its result.
CallFetch ==
    /\ pc' = "await"
    /\ fpc' = "loop"
    /\ cursorArg' = nextPage
    /\ sent' = Undefined
    /\ maxRetries' = DefaultMaxRetries
    /\ baseDelay' = DefaultBaseDelay
    /\ attempt' = 0
    /\ outcome' = NoOutcome
    /\ tries' = 0
    /\ errs' = 0
    /\ anoms' = 0
    /\ slept' = <<>>

\* Lines 123-126: the while test, then the call, or the exit to line 146.
LoopTest ==
    /\ pc = "loop"
    /\ UNCHANGED worldVars
    /\ IF LoopCond(nextPage, pages, currentPage)
       THEN CallFetch
       ELSE /\ pc' = "finish"
            /\ UNCHANGED <<cursorArg, maxRetries, baseDelay, attempt, fpc, outcome>>
            /\ UNCHANGED <<tries, errs, anoms, slept, sent>>
    /\ UNCHANGED <<pages, clean, initialData, reviews, nextPage, currentPage, result>>
    /\ UNCHANGED <<data, delay>>
    /\ UNCHANGED <<got, attempts, sentinelPage, parserArgs, pauses>>

\* Mutant: continue instead of break.
DriverContinue ==
    /\ pc' = "loop"
    /\ UNCHANGED <<reviews, nextPage, pauses>>

\* Lines 129-130: break.
DriverBreak ==
    /\ pc' = "finish"
    /\ UNCHANGED <<reviews, nextPage, pauses>>

\* Mutant: the loop goes on without the pause.
StartPauseSkipped ==
    /\ pc' = "pause"
    /\ UNCHANGED pauses

\* Line 142: setTimeout(resolve, 1000).
StartPause ==
    /\ pc' = "pause"
    /\ pauses' = Append(pauses, InterPageDelay)

\* Lines 128-142: the driver resumes with the fetcher's result.
OnFetched ==
    /\ pc = "await"
    /\ UNCHANGED worldVars
    /\ fpc = "returned"
    /\ fpc' = "idle"
    /\ IF DriverStops(data)
       THEN DriverBreak
       ELSE /\ reviews' = AppendBatch(reviews, data.batch.items)
            /\ LET n == OptReplace(data.cursor) IN
                 IF n = TypeError
                 THEN /\ pc' = "thrown"
                      /\ UNCHANGED <<nextPage, pauses>>
                 ELSE /\ nextPage' = n
                      /\ IF ~Truthy(n)
                         THEN /\ pc' = "finish"
                              /\ UNCHANGED pauses
                         ELSE StartPause
    /\ UNCHANGED <<pages, clean, initialData, currentPage, result>>
    /\ UNCHANGED <<cursorArg, maxRetries, baseDelay, attempt, outcome, data, delay>>
    /\ UNCHANGED <<got, attempts, tries, errs, anoms, slept, sentinelPage, parserArgs, sent>>

\* Mutant: the page counter is not incremented.
PauseDoneNoIncrement ==
    /\ pc = "pause"
    /\ UNCHANGED worldVars
    /\ UNCHANGED currentPage
    /\ pc' = "loop"
    /\ UNCHANGED <<pages, clean, initialData, reviews, nextPage, result>>
    /\ UNCHANGED fetchVars
    /\ UNCHANGED histVars

\* Lines 142-143: the inter-page timer fires; currentPage++.
PauseDone ==
    /\ pc = "pause"
    /\ UNCHANGED worldVars
    /\ currentPage' = currentPage + 1
    /\ pc' = "loop"
    /\ UNCHANGED <<pages, clean, initialData, reviews, nextPage, result>>
    /\ UNCHANGED fetchVars
    /\ UNCHANGED histVars

\* Mutant: the parser is called whatever the clean flag says.
FinishAlwaysParses ==
    /\ pc = "finish"
    /\ UNCHANGED worldVars
    /\ pc' = "parsing"
    /\ parserArgs' = Append(parserArgs, reviews)
    /\ UNCHANGED result
    /\ UNCHANGED <<pages, clean, initialData, reviews, nextPage, currentPage>>
    /\ UNCHANGED fetchVars
    /\ UNCHANGED <<got, attempts, tries, errs, anoms, slept, sentinelPage, pauses, sent>>

\* Line 147: clean ? await parser(reviews) : reviews.
Finish ==
    /\ pc = "finish"
    /\ UNCHANGED worldVars
    /\ IF clean
       THEN /\ pc' = "parsing"
            /\ parserArgs' = Append(parserArgs, reviews)
            /\ UNCHANGED result
       ELSE /\ pc' = "done"
            /\ result' = [cleaned |-> FALSE, items |-> reviews]
            /\ UNCHANGED parserArgs
    /\ UNCHANGED <<pages, clean, initialData, reviews, nextPage, currentPage>>
    /\ UNCHANGED fetchVars
    /\ UNCHANGED <<got, attempts, tries, errs, anoms, slept, sentinelPage, pauses, sent>>

\* Line 147: the awaited parser settles and its value is returned.
ParserDone ==
    /\ pc = "parsing"
    /\ UNCHANGED worldVars
    /\ result' = parser(parserArgs[Len(parserArgs)])
    /\ pc' = "done"
    /\ UNCHANGED <<pages, clean, initialData, reviews, nextPage, currentPage>>
    /\ UNCHANGED fetchVars
    /\ UNCHANGED histVars

Next ==
    \/ Enter
    \/ LoopTest
    \/ OnFetched
    \/ PauseDone
    \/ Finish
    \/ ParserDone
    \/ FetchLoop
    \/ FetchSettle
    \/ TryBody
    \/ CatchBody
    \/ SleepDone

Spec == Init /\ [][Next]_vars

\* The calls whose first Page holds two records.
InitLive == Init /\ initialData.batch = BArr(<<"r1", "r2">>)

\* Every awaited fetch, timer and parser call completes.
FairSpec == InitLive /\ [][Next]_vars /\ WF_vars(Next)

(***************************************************************************)
(* Vocabulary of the properties.                                           *)
(***************************************************************************)
RECURSIVE ConcatBatches(_)
\* The batches of a sequence of pages, one after the other.
ConcatBatches(ps) ==
    IF ps = <<>> THEN <<>>
    ELSE ConcatBatches(SubSeq(ps, 1, Len(ps) - 1)) \o ps[Len(ps)].batch.items

RECURSIVE SumSeq(_)
SumSeq(ds) == IF ds = <<>> THEN 0 ELSE ds[1] + SumSeq(Tail(ds))

\* The first Page's batch followed by the batch of every page the fetcher returned.
AllBatches == initialData.batch.items \o ConcatBatches(got)

\* The value the call returns for the accumulated sequence rs.
Returns(rs) == result = IF clean THEN parser(rs) ELSE [cleaned |-> FALSE, items |-> rs]

\* A cursor string that holds a token between its quotes.
CarriesCursor(c) == c.kind = "string" /\ \E i \in 1..Len(c.chars) : c.chars[i] # DQ

\* The cursor of page k of the chain: 0 is the first Page, k the k-th follow-up page.
ChainCursor(k) == IF k = 0 THEN initialData.cursor ELSE got[k].cursor

\* Every page obtained so far either carries a cursor or carries none (null).
WellFormedChain ==
    \A k \in 0..Len(got) : CarriesCursor(ChainCursor(k)) \/ ChainCursor(k) = JNull

Min(a, b) == IF a <= b THEN a ELSE b

Terminated == pc \in {"done", "thrown"}

(***************************************************************************)
(* C1.  Page-budget law.  When the call has returned, no fetch was given   *)
(* up and the chain is well formed, the follow-up pages obtained are the   *)
(* first n pages of the chain, each page before the n-th carrying a        *)
(* cursor; with budget "max" n is the chain length L (page n carries no    *)
(* cursor); with a finite budget B >= 1, n = min(L, B-1): n = L <= B-1     *)
(* when page n carries no cursor, and n = B-1 when it still carries one.   *)
(* With B < 2 no fetch attempt is ever issued and the call returns the     *)
(* first Page's batch.                                                     *)
(***************************************************************************)
C1_PageBudgetLaw ==
    /\ (pc = "done" /\ sentinelPage = 0 /\ WellFormedChain /\ (pages.max \/ pages.n >= 1)) =>
         LET n == Len(got) IN
           /\ \A k \in 0..(n - 1) : CarriesCursor(ChainCursor(k))
           /\ pages.max => ChainCursor(n) = JNull
           /\ ~pages.max =>
                IF ChainCursor(n) = JNull THEN n <= pages.n - 1 ELSE n = pages.n - 1
    /\ (~pages.max /\ pages.n < 2) =>
         /\ attempts = 0
         /\ fpc = "idle"
         /\ pc = "done" => Returns(initialData.batch.items)

\* The budget binds: two follow-up pages under budget 3, the second still carrying a cursor.
C1_Witness ==
    /\ pc = "done"
    /\ sentinelPage = 0
    /\ WellFormedChain
    /\ pages = Budget(3)
    /\ Len(got) = 2
    /\ CarriesCursor(ChainCursor(2))

(***************************************************************************)
(* C2.  Ordering law.  When the call has returned with clean = false, the  *)
(* result is the first Page's batch followed by the batches of the pages   *)
(* the fetcher returned, in fetch order, each in provider order, with      *)
(* duplicates kept.                                                        *)
(***************************************************************************)
C2_OrderingLaw ==
    (pc = "done" /\ ~clean) => result = [cleaned |-> FALSE, items |-> AllBatches]

\* Two follow-up pages with different batches that share a record.
C2_Witness ==
    /\ pc = "done"
    /\ ~clean
    /\ Len(got) = 2
    /\ got[1].batch.items = <<"r2", "r1">>
    /\ got[2].batch.items = <<"r1">>
    /\ initialData.batch.items = <<"r1", "r2">>

(***************************************************************************)
(* C3.  Exhaustion law.  Once fetchWithRetry has returned null for page k  *)
(* (k the driver's page number, the first Page being page 1), the fetcher  *)
(* is never started again, the pages obtained are pages 1..k-1, and the    *)
(* call returns their batches concatenated.                                *)
(***************************************************************************)
C3_ExhaustionLaw ==
    sentinelPage # 0 =>
        /\ fpc \in {"returned", "idle"}
        /\ pc \in {"await", "finish", "parsing", "done"}
        /\ Len(got) = sentinelPage - 2
        /\ reviews = AllBatches
        /\ pc = "done" => Returns(AllBatches)

\* The second follow-up page (page 3) was given up after one page was obtained.
C3_Witness ==
    /\ pc = "done"
    /\ sentinelPage = 3
    /\ Len(got) = 1
    /\ result.items = initialData.batch.items \o got[1].batch.items

(***************************************************************************)
(* C4.  Given a first Page whose cursor is null or a string, the call      *)
(* never ends by raising an error, whatever the follow-up fetches yield.   *)
(***************************************************************************)
C4_NeverRaises ==
    initialData.cursor.kind \in {"null", "string"} => pc # "thrown"

(***************************************************************************)
(* C5.  fetchWithRetry never ends by throwing: it ends by returning, and   *)
(* what it returns is a Page or null.                                      *)
(***************************************************************************)
C5_NeverPropagates ==
    /\ fpc \in {"idle", "loop", "inflight", "settled", "sleeping", "returned"}
    /\ fpc = "returned" => (data = Sentinel \/ data.kind = "page")

\* Every attempt threw and the call returned null.
C5_Witness ==
    /\ fpc = "returned"
    /\ data = Sentinel
    /\ maxRetries = 2
    /\ errs = 3
    /\ anoms = 0

(***************************************************************************)
(* C6.  Attempt bound.  One call of fetchWithRetry makes at most           *)
(* maxRetries+1 attempts; attempts failed by error and by empty batch are  *)
(* counted together; null is returned exactly when maxRetries+1 attempts   *)
(* failed, and a Page is returned by the one attempt that did not fail.    *)
(***************************************************************************)
C6_AttemptBound ==
    /\ tries <= maxRetries + 1
    /\ errs + anoms <= tries
    /\ fpc = "returned" =>
         /\ data = Sentinel <=> errs + anoms = maxRetries + 1
         /\ data # Sentinel => errs + anoms = tries - 1

\* null after four attempts, two failed by error and two by empty batch.
C6_Witness ==
    /\ fpc = "returned"
    /\ data = Sentinel
    /\ maxRetries = 3
    /\ tries = 4
    /\ errs = 2
    /\ anoms = 2

(***************************************************************************)
(* C7.  Backoff schedule.  The i-th sleep of a call lasts                  *)
(* baseDelay * 2^(i-1) ms; there is one sleep after each failed attempt    *)
(* a < maxRetries, before attempt a+1, none after the last attempt and     *)
(* none after a successful one; the defaults give 2000, 4000, 8000.        *)
(***************************************************************************)
C7_BackoffSchedule ==
    /\ \A i \in 1..Len(slept) : slept[i] = baseDelay * 2^(i - 1)
    /\ Len(slept) = Min(errs + anoms, maxRetries)
    /\ fpc = "sleeping" => (delay = slept[Len(slept)] /\ Len(slept) = attempt + 1)
    /\ fpc = "inflight" => Len(slept) = tries - 1
    /\ (fpc = "returned" /\ data # Sentinel) => Len(slept) = tries - 1
    /\ (fpc = "returned" /\ data = Sentinel) => Len(slept) = maxRetries
    /\ (fpc = "returned" /\ data = Sentinel /\ maxRetries = 3 /\ baseDelay = 2000) =>
         slept = <<2000, 4000, 8000>>

\* The default schedule, after attempts failed in both ways.
C7_Witness ==
    /\ fpc = "returned"
    /\ data = Sentinel
    /\ maxRetries = 3
    /\ baseDelay = 2000
    /\ slept = <<2000, 4000, 8000>>
    /\ errs > 0
    /\ anoms > 0

(***************************************************************************)
(* C8.  First-success return.  When an attempt settles with a decoded      *)
(* value whose batch is a non-empty array, fetchWithRetry returns that     *)
(* value at once: no further attempt, no further sleep, and the backoff    *)
(* spent is baseDelay * (2^j - 1) for attempt j.  The driver then appends  *)
(* the page's batch to the accumulated sequence.                           *)
(***************************************************************************)
C8_FirstSuccessReturn ==
    [][/\ (/\ fpc = "settled"
           /\ outcome.kind = "value"
           /\ outcome.value.kind = "page"
           /\ outcome.value.batch.kind = "array"
           /\ outcome.value.batch.items # <<>>) =>
             /\ fpc' = "returned"
             /\ data' = outcome.value
             /\ attempts' = attempts
             /\ slept' = slept
             /\ tries = attempt + 1
             /\ SumSeq(slept) = baseDelay * (2^attempt - 1)
       /\ fpc = "returned" => attempts' = attempts
       /\ (pc = "await" /\ fpc = "returned" /\ data # Sentinel) =>
             reviews' = reviews \o data.batch.items
      ]_vars

\* Scenario C: two thrown errors, then two records with a null cursor on attempt 2.
C8_Witness ==
    /\ pc = "finish"
    /\ Len(got) = 1
    /\ attempt = 2
    /\ errs = 2
    /\ anoms = 0
    /\ slept = <<2000, 4000>>
    /\ got[1] = VPage(JNull, BArr(<<"r2", "r1">>))
    /\ reviews = initialData.batch.items \o <<"r2", "r1">>

(***************************************************************************)
(* C9.  Termination.  With a finite budget B >= 1 the call makes at most   *)
(* (B-1) * (maxRetries+1) fetch attempts and terminates; with budget       *)
(* "max" it terminates once a page with a null cursor has been returned    *)
(* or a page has been given up (every fetch and sleep completing).         *)
(***************************************************************************)
C9_Termination ==
    /\ []((~pages.max /\ pages.n >= 1) => attempts <= (pages.n - 1) * (DefaultMaxRetries + 1))
    /\ (~pages.max) => <>Terminated
    /\ (/\ pages.max
        /\ \/ sentinelPage # 0
           \/ (got # <<>> /\ got[Len(got)].cursor = JNull)) ~> Terminated

\* The bound is met: budget 3, both follow-up pages obtained on their fourth attempt.
C9_Witness ==
    /\ pc = "done"
    /\ pages = Budget(3)
    /\ attempts = 8
    /\ Len(got) = 2

(***************************************************************************)
(* C10.  Cleaning transform discipline.  The parser is called at most      *)
(* once, and only with clean set; at return it has been called exactly     *)
(* when clean is set; when it is called the loop has ended, no fetch       *)
(* attempt follows, and its argument is the whole accumulated sequence.    *)
(* With clean false the accumulated sequence is returned as it is.         *)
(***************************************************************************)
C10_CleaningDiscipline ==
    /\ Len(parserArgs) <= 1
    /\ ~clean => parserArgs = <<>>
    /\ pc = "done" => (Len(parserArgs) = 1 <=> clean)
    /\ parserArgs # <<>> =>
         /\ pc \in {"parsing", "done"}
         /\ fpc = "idle"
         /\ parserArgs[1] = AllBatches
    /\ (pc = "done" /\ ~clean) => result = [cleaned |-> FALSE, items |-> reviews]
    /\ (pc = "done" /\ clean) => result = parser(reviews)

\* The parser was called once, with three pages' records.
C10_Witness ==
    /\ pc = "done"
    /\ clean
    /\ Len(got) = 2
    /\ initialData.batch.items # <<>>
    /\ parserArgs = <<AllBatches>>
    /\ result.cleaned

(***************************************************************************)
(* C11.  Strict cursor order.  The fetcher works only while the driver     *)
(* awaits it, one request at a time; every request for follow-up page      *)
(* N+1 is issued after page N was returned (N = 0 is the first Page) and   *)
(* carries the cursor of page N without its quotes; retries carry the      *)
(* same cursor, never one taken from a failed or empty response.           *)
(***************************************************************************)
RECURSIVE NoQuotes(_)
\* The characters of s that are not double quotes, in order.
NoQuotes(s) ==
    IF s = <<>> THEN <<>>
    ELSE IF Head(s) = DQ THEN NoQuotes(Tail(s))
    ELSE <<Head(s)>> \o NoQuotes(Tail(s))

\* The cursor of the page most recently returned, without its quotes.
LatestCursor == [kind |-> "string", chars |-> NoQuotes(ChainCursor(Len(got)).chars)]

C11_CursorOrder ==
    /\ fpc \in {"loop", "inflight", "settled", "sleeping"} =>
         /\ pc = "await"
         /\ ChainCursor(Len(got)).kind = "string"
         /\ cursorArg = LatestCursor
    /\ fpc \in {"inflight", "settled", "sleeping"} =>
         /\ sent = LatestCursor
         /\ attempts >= Len(got) + 1

\* A retry for the page after one that carried cursor "b", after an empty
\* response (whose cursor, if any, is null or "a").
C11_Witness ==
    /\ fpc = "inflight"
    /\ Len(got) = 1
    /\ got[1].cursor = JStr(<<DQ, "b", DQ>>)
    /\ anoms >= 1
    /\ tries >= 2
    /\ sent = [kind |-> "string", chars |-> <<"b">>]

(***************************************************************************)
(* Two calls of paginateReviews in one process.  Every variable of         *)
(* paginateReviews and fetchWithRetry is a local of its call (lines 76,    *)
(* 117, 118, 122, 126), so a call is its record of locals.  The event      *)
(* loop runs one call at a time and can change calls only where the        *)
(* running call is suspended at an await, not yet started, or finished.    *)
(***************************************************************************)
\* The locals (and the observation) of the call running now.
Cur ==
    [pages |-> pages, clean |-> clean, initialData |-> initialData, reviews |-> reviews,
     nextPage |-> nextPage, currentPage |-> currentPage, pc |-> pc, result |-> result,
     cursorArg |-> cursorArg, maxRetries |-> maxRetries, baseDelay |-> baseDelay,
     attempt |-> attempt, fpc |-> fpc, outcome |-> outcome, data |-> data, delay |-> delay,
     text |-> text, got |-> got, attempts |-> attempts, tries |-> tries, errs |-> errs,
     anoms |-> anoms, slept |-> slept, sentinelPage |-> sentinelPage,
     parserArgs |-> parserArgs, pauses |-> pauses, sent |-> sent, self |-> self]

\* A call that has not run yet.
FreshCall(id, pg, cl, first) ==
    [pages |-> pg, clean |-> cl, initialData |-> first, reviews |-> <<>>,
     nextPage |-> Undefined, currentPage |-> 0, pc |-> "entry", result |-> NoResult,
     cursorArg |-> Undefined, maxRetries |-> DefaultMaxRetries, baseDelay |-> DefaultBaseDelay,
     attempt |-> 0, fpc |-> "idle", outcome |-> NoOutcome, data |-> Sentinel, delay |-> 0,
     text |-> <<>>, got |-> <<>>, attempts |-> 0, tries |-> 0, errs |-> 0,
     anoms |-> 0, slept |-> <<>>, sentinelPage |-> 0,
     parserArgs |-> <<>>, pauses |-> <<>>, sent |-> Undefined, self |-> id]

\* The running call is at an await (lines 54-58, 78, 89, 95, 126, 142, 147),
\* has not started, or has ended.
Suspended ==
    \/ pc \in {"entry", "pause", "parsing", "done", "thrown"}
    \/ (pc = "await" /\ fpc \in {"inflight", "settled", "sleeping"})

\* Mutant: the accumulated sequence is one variable of the module, shared by the calls.
ResumeSharedReviews(s) ==
    /\ pages' = s.pages /\ clean' = s.clean /\ initialData' = s.initialData
    /\ reviews' = reviews
    /\ nextPage' = s.nextPage /\ currentPage' = s.currentPage /\ pc' = s.pc
    /\ result' = s.result /\ cursorArg' = s.cursorArg /\ maxRetries' = s.maxRetries
    /\ baseDelay' = s.baseDelay /\ attempt' = s.attempt /\ fpc' = s.fpc
    /\ outcome' = s.outcome /\ data' = s.data /\ delay' = s.delay /\ text' = s.text
    /\ got' = s.got /\ attempts' = s.attempts /\ tries' = s.tries /\ errs' = s.errs
    /\ anoms' = s.anoms /\ slept' = s.slept /\ sentinelPage' = s.sentinelPage
    /\ parserArgs' = s.parserArgs /\ pauses' = s.pauses /\ sent' = s.sent /\ self' = s.self

\* The call with locals s runs on: each local is its own.
Resume(s) ==
    /\ pages' = s.pages /\ clean' = s.clean /\ initialData' = s.initialData
    /\ reviews' = s.reviews
    /\ nextPage' = s.nextPage /\ currentPage' = s.currentPage /\ pc' = s.pc
    /\ result' = s.result /\ cursorArg' = s.cursorArg /\ maxRetries' = s.maxRetries
    /\ baseDelay' = s.baseDelay /\ attempt' = s.attempt /\ fpc' = s.fpc
    /\ outcome' = s.outcome /\ data' = s.data /\ delay' = s.delay /\ text' = s.text
    /\ got' = s.got /\ attempts' = s.attempts /\ tries' = s.tries /\ errs' = s.errs
    /\ anoms' = s.anoms /\ slept' = s.slept /\ sentinelPage' = s.sentinelPage
    /\ parserArgs' = s.parserArgs /\ pauses' = s.pauses /\ sent' = s.sent /\ self' = s.self

\* The event loop turns from the running call to the other one.
Switch ==
    /\ other.pc # "none"
    /\ Suspended
    /\ other' = Cur
    /\ Resume(other)

\* What the endpoint answers to call id for its follow-up page k: an error, an
\* empty batch, a last page, or (while the location has more pages) a page that leads on.
TwoOutcomes(id, k) ==
    LET b == IF id = 1 THEN BArr(<<"r1">>) ELSE BArr(<<"r2", "r1">>) IN
      {Thrown, Value(VPage(JStr(<<DQ, "a", DQ>>), BArr(<<>>))), Value(VPage(JNull, b))}
      \cup (IF k < (IF id = 1 THEN MaxChain - 1 ELSE MaxChain - 2) THEN {Value(VPage(JStr(<<DQ, "b", DQ>>), b))} ELSE {})

FetchSettleTwo == FetchSettle /\ outcome' \in TwoOutcomes(self, Len(got) + 1)

InitTwo ==
    /\ pages \in {Budget(MaxBudget - 1), Max}
    /\ clean = FALSE
    /\ initialData = VPage(JStr(<<DQ, "a", DQ>>), BArr(<<"r1", "r2">>))
    /\ reviews = <<>>
    /\ nextPage = Undefined
    /\ currentPage = 0
    /\ pc = "entry"
    /\ result = NoResult
    /\ cursorArg = Undefined
    /\ text = <<>>
    /\ self = 1
    /\ other = FreshCall(2, Max, TRUE, VPage(JStr(<<DQ, "a", DQ>>), BAbsent))
    /\ maxRetries = DefaultMaxRetries
    /\ baseDelay = DefaultBaseDelay
    /\ attempt = 0
    /\ fpc = "idle"
    /\ outcome = NoOutcome
    /\ data = Sentinel
    /\ delay = 0
    /\ NoHistory

NextTwo ==
    \/ Enter
    \/ LoopTest
    \/ OnFetched
    \/ PauseDone
    \/ Finish
    \/ ParserDone
    \/ FetchLoop
    \/ FetchSettleTwo
    \/ TryBody
    \/ CatchBody
    \/ SleepDone
    \/ Switch

SpecTwo == InitTwo /\ [][NextTwo]_vars

(***************************************************************************)
(* C12.  Independence of interleaved calls.  A step of one call leaves     *)
(* the other call's locals as they are, and a change of call leaves both   *)
(* as they are; so in every interleaving each call's accumulated           *)
(* sequence, result, cursor, page counter and attempt counter are the      *)
(* ones its own input and its own fetch outcomes give.                     *)
(***************************************************************************)
\* What a call running alone satisfies, stated of a record of locals.
SoloLaws(s) ==
    LET first == s.initialData.batch.items
        all == first \o ConcatBatches(s.got)
        latest == IF s.got = <<>> THEN s.initialData.cursor ELSE s.got[Len(s.got)].cursor
    IN
      /\ (s.pc \notin {"entry"} /\ ~(s.pc = "await" /\ s.fpc = "returned")) => s.reviews = all
      /\ s.pc = "done" => s.result = [cleaned |-> s.clean, items |-> all]
      /\ s.pc = "loop" => s.currentPage = 2 + Len(s.got)
      /\ s.tries <= s.maxRetries + 1
      /\ s.fpc \in {"inflight", "settled"} =>
           /\ s.tries = s.attempt + 1
           /\ s.errs + s.anoms = s.attempt
           /\ s.sent.chars = NoQuotes(latest.chars)
      /\ s.fpc = "returned" => (s.data = Sentinel <=> s.errs + s.anoms = s.maxRetries + 1)
      /\ s.attempts <= (Len(s.got) + 1) * (s.maxRetries + 1)

C12_Independence ==
    /\ [](SoloLaws(Cur) /\ SoloLaws(other))
    /\ [][\/ (other' = other /\ self' = self)
          \/ (other' = Cur /\ Cur' = other)]_vars

\* Both calls are in the middle of a page, each with its own counters and records.
C12_Witness ==
    /\ self = 1
    /\ fpc = "inflight"
    /\ attempt = 2
    /\ Len(got) = 1
    /\ currentPage = 3
    /\ other.fpc = "sleeping"
    /\ other.attempt = 1
    /\ other.currentPage = 2
    /\ other.reviews = <<>>
    /\ reviews = <<"r1", "r2", "r1">>

(***************************************************************************)
(* Cursor normalisation on arbitrary cursor strings: one call whose first  *)
(* Page and whose one follow-up page carry any string over a quote and a   *)
(* letter, up to MaxCursorLen characters.                                  *)
(***************************************************************************)
CursorStrings == UNION {[1..n -> {DQ, "a"}] : n \in 0..MaxCursorLen}

InitCursor ==
    /\ pages = Budget(FirstFollowUpPage)
    /\ clean = FALSE
    /\ \E c \in CursorStrings : initialData = VPage(JStr(c), BArr(<<"r1">>))
    /\ reviews = <<>>
    /\ nextPage = Undefined
    /\ currentPage = 0
    /\ pc = "entry"
    /\ result = NoResult
    /\ cursorArg = Undefined
    /\ text = <<>>
    /\ self = 1
    /\ other = NoCall
    /\ maxRetries = DefaultMaxRetries
    /\ baseDelay = DefaultBaseDelay
    /\ attempt = 0
    /\ fpc = "idle"
    /\ outcome = NoOutcome
    /\ data = Sentinel
    /\ delay = 0
    /\ NoHistory

\* Line 78: fetchReviews resolves with a page that carries any cursor string.
FetchSettleCursor ==
    /\ fpc = "inflight"
    /\ UNCHANGED worldVars
    /\ \E c \in CursorStrings : outcome' = Value(VPage(JStr(c), BArr(<<"r2">>)))
    /\ fpc' = "settled"
    /\ UNCHANGED <<cursorArg, maxRetries, baseDelay, attempt, data, delay>>
    /\ UNCHANGED histVars
    /\ UNCHANGED driverVars

NextCursor ==
    \/ Enter
    \/ LoopTest
    \/ FetchLoop
    \/ FetchSettleCursor
    \/ TryBody
    \/ OnFetched
    \/ PauseDone
    \/ Finish

SpecCursor == InitCursor /\ [][NextCursor]_vars

(***************************************************************************)
(* C13.  Idempotence of cursor unquoting.  Whatever cursor string a page   *)
(* carried, the unquoted cursor the driver holds, and the one it passed    *)
(* to the fetcher, is unchanged by unquoting it once more.                 *)
(***************************************************************************)
C13_UnquoteIdempotent ==
    /\ nextPage.kind = "string" => OptReplace(nextPage) = nextPage
    /\ cursorArg.kind = "string" => OptReplace(cursorArg) = cursorArg
    /\ \A k \in 0..Len(got) :
         OptReplace(OptReplace(ChainCursor(k))) = OptReplace(ChainCursor(k))

\* The driver holds the unquoted form of a cursor with a quote inside its wrapping.
C13_Witness ==
    /\ pc = "pause"
    /\ got[1].cursor.chars = <<DQ, DQ, "a", DQ>>
    /\ nextPage.chars = <<"a">>

(***************************************************************************)
(* C14.  Normalisation removes only the wrapping quotes.  The cursor sent  *)
(* for the next page is the provider's wrapped cursor string without its   *)
(* first and last character, the interior left as it is; and two different *)
(* wrapped cursors of one call never give the same request cursor.         *)
(***************************************************************************)
Wrapped(c) == c.kind = "string" /\ Len(c.chars) >= 2 /\ Head(c.chars) = DQ /\ c.chars[Len(c.chars)] = DQ

Interior(c) == SubSeq(c.chars, 2, Len(c.chars) - 1)

C14_OnlyWrappingQuotes ==
    /\ (fpc = "inflight" /\ Wrapped(ChainCursor(Len(got)))) =>
         sent.chars = Interior(ChainCursor(Len(got)))
    /\ (pc = "pause" /\ Wrapped(initialData.cursor) /\ Wrapped(got[1].cursor)
          /\ initialData.cursor # got[1].cursor) => nextPage # cursorArg

(***************************************************************************)
(* fetchReviews, lines 54-60, on response texts.  A text is a sequence of  *)
(* tokens: the marker, the brackets of an array, the quote that opens and  *)
(* closes a string, and the literal null (a plain character inside a       *)
(* string).  Commas are left out: an array is a run of values.             *)
(***************************************************************************)
Marker == ")]}'"

Tokens == {Marker, "[", "]", DQ, "n"}

Texts == UNION {[1..n -> Tokens] : n \in 0..MaxTextLen}

\* The value of an expression that is undefined, or a string of tokens.
NoText == [defined |-> FALSE, toks |-> <<>>]
Text(t) == [defined |-> TRUE, toks |-> t]

HasMarker(t) == \E i \in 1..Len(t) : t[i] = Marker

\* Index of the first marker of t, or Len(t) + 1 when t has none.
FirstMarker(t) == CHOOSE i \in 1..(Len(t) + 1) :
                    /\ (i <= Len(t) => t[i] = Marker)
                    /\ \A j \in 1..(i - 1) : t[j] # Marker

\* Everything after the first marker of t; undefined when there is no marker.
AfterFirstMarker(t) ==
    IF ~HasMarker(t) THEN NoText
    ELSE Text(SubSeq(t, FirstMarker(t) + 1, Len(t)))

\* Line 59: textData.split(")]}'")[1], the piece between the first marker and
\* the second one (or the end of the text); undefined when there is no marker.
SplitSecond(t) ==
    IF ~HasMarker(t) THEN NoText
    ELSE LET rest == SubSeq(t, FirstMarker(t) + 1, Len(t)) IN
           Text(SubSeq(rest, 1, FirstMarker(rest) - 1))

\* Whether the tokens t, read at nesting depth d, inside a string or not,
\* with the top-level value begun or not, end as exactly one JSON value.
RECURSIVE Scan(_, _, _, _)
Scan(t, d, instr, begun) ==
    IF t = <<>> THEN d = 0 /\ ~instr /\ begun
    ELSE IF instr
         THEN IF Head(t) = DQ THEN Scan(Tail(t), d, FALSE, TRUE)
              ELSE Scan(Tail(t), d, TRUE, TRUE)
    ELSE IF begun /\ d = 0 THEN FALSE
    ELSE IF Head(t) = "[" THEN Scan(Tail(t), d + 1, FALSE, TRUE)
    ELSE IF Head(t) = "]" THEN d > 0 /\ Scan(Tail(t), d - 1, FALSE, TRUE)
    ELSE IF Head(t) = DQ THEN Scan(Tail(t), d, TRUE, TRUE)
    ELSE IF Head(t) = "n" THEN Scan(Tail(t), d, FALSE, TRUE)
    ELSE FALSE

\* The JSON value a document denotes (without white space, its own tokens).
Json(t) == [kind |-> "json", doc |-> t]

\* Line 60: JSON.parse(rawData).  undefined is read as the text "undefined",
\* which is no JSON document; a SyntaxError is thrown on any malformed text.
JsonParse(r) ==
    IF r.defined /\ Scan(r.toks, 0, FALSE, FALSE) THEN Value(Json(r.toks)) ELSE Thrown

\* Lines 59-60.
Decode(t) == JsonParse(SplitSecond(t))

InitDecode ==
    /\ pages = Max
    /\ clean = FALSE
    /\ initialData = VPage(JNull, BAbsent)
    /\ reviews = <<>>
    /\ nextPage = Undefined
    /\ currentPage = 0
    /\ pc = "direct"
    /\ result = NoResult
    /\ cursorArg = [kind |-> "string", chars |-> <<"a">>]
    /\ text = <<>>
    /\ self = 1
    /\ other = NoCall
    /\ maxRetries = DefaultMaxRetries
    /\ baseDelay = DefaultBaseDelay
    /\ attempt = 0
    /\ fpc = "loop"
    /\ outcome = NoOutcome
    /\ data = Sentinel
    /\ delay = 0
    /\ NoHistory

\* Lines 54-58: the response arrives; a status that is not ok throws,
\* otherwise the body text is read.
ReceiveText ==
    /\ fpc = "inflight"
    /\ \/ /\ outcome' = Thrown
          /\ fpc' = "settled"
          /\ UNCHANGED text
       \/ /\ text' \in Texts
          /\ fpc' = "body"
          /\ UNCHANGED outcome
    /\ UNCHANGED <<self, other>>
    /\ UNCHANGED <<cursorArg, maxRetries, baseDelay, attempt, data, delay>>
    /\ UNCHANGED histVars
    /\ UNCHANGED driverVars

\* Lines 59-60: the body is split at the marker and parsed.
DecodeText ==
    /\ fpc = "body"
    /\ outcome' = Decode(text)
    /\ fpc' = "settled"
    /\ UNCHANGED worldVars
    /\ UNCHANGED <<cursorArg, maxRetries, baseDelay, attempt, data, delay>>
    /\ UNCHANGED histVars
    /\ UNCHANGED driverVars

NextDecode ==
    \/ FetchLoop
    \/ ReceiveText
    \/ DecodeText

SpecDecode == InitDecode /\ [][NextDecode]_vars

(***************************************************************************)
(* C15.  Envelope decoding.  The value fetchReviews yields for a response  *)
(* text is the parse of everything after the first marker of the text,     *)
(* also when the marker occurs again later; a text without the marker      *)
(* makes fetchReviews throw.                                               *)
(***************************************************************************)
C15_DecodesAfterFirstMarker ==
    [][fpc = "body" =>
         /\ outcome' = JsonParse(AfterFirstMarker(text))
         /\ ~HasMarker(text) => outcome' = Thrown]_vars

(***************************************************************************)
(* C16.  What the fetcher returns.  A value fetchWithRetry returns is the  *)
(* null sentinel or a Page whose batch is a non-empty array, so every      *)
(* page the driver appends adds at least one record and the driver stops   *)
(* on "not an array" only when it was handed the sentinel.                 *)
(***************************************************************************)
NonEmptyPage(d) == d.kind = "page" /\ d.batch.kind = "array" /\ Len(d.batch.items) > 0

C16_ReturnsSentinelOrData ==
    /\ [](/\ fpc = "returned" => (data = Sentinel \/ NonEmptyPage(data))
          /\ \A k \in 1..Len(got) : NonEmptyPage(got[k])
          /\ (pc = "await" /\ fpc = "returned" /\ DriverStops(data)) => data = Sentinel)
    /\ [][(pc = "await" /\ fpc = "returned" /\ data # Sentinel) =>
            Len(reviews') >= Len(reviews) + 1]_vars

\* A page was returned after responses with an empty batch were turned down.
C16_Witness ==
    /\ pc = "await"
    /\ fpc = "returned"
    /\ anoms = 2
    /\ NonEmptyPage(data)
    /\ Len(got) = 2

(***************************************************************************)
(* C17.  No fetched data is lost.  Once the call has started, the first    *)
(* Page's batch is a prefix of the accumulated sequence; every step        *)
(* leaves the sequence as it is or puts one whole returned batch at its    *)
(* end.                                                                    *)
(***************************************************************************)
C17_NoDataLost ==
    /\ [](pc # "entry" =>
            /\ Len(reviews) >= Len(InitialReviews(initialData))
            /\ SubSeq(reviews, 1, Len(InitialReviews(initialData))) = InitialReviews(initialData))
    /\ [][\/ reviews' = reviews
          \/ (pc = "entry" /\ reviews' = InitialReviews(initialData))
          \/ (pc = "await" /\ fpc = "returned" /\ NonEmptyPage(data)
                /\ reviews' = reviews \o data.batch.items)]_vars

\* A page was appended, then failed attempts, sleeps, a pause and a sentinel
\* followed, and the sequence is still the first batch and that page's batch.
C17_Witness ==
    /\ pc = "finish"
    /\ Len(got) = 1
    /\ sentinelPage = 3
    /\ Len(pauses) = 1
    /\ errs >= 1
    /\ slept # <<>>
    /\ initialData.batch.items = <<"r1", "r2">>
    /\ reviews = <<"r1", "r2">> \o got[1].batch.items

(***************************************************************************)
(* C18.  The three reasons to stop.  When the driver has left its loop,    *)
(* the latest page carries no cursor, or the page number exceeds a finite  *)
(* budget, or the fetcher returned the sentinel; no request is in progress *)
(* while one of these holds; a first Page without a cursor gives no fetch  *)
(* attempt; and the call ends by returning the accumulated sequence.       *)
(***************************************************************************)
AbsentCursor(c) == c = JNull \/ (c.kind = "string" /\ \A i \in 1..Len(c.chars) : c.chars[i] = DQ)

CursorExhausted == AbsentCursor(ChainCursor(Len(got)))
BudgetReached == ~pages.max /\ currentPage > pages.n
FetchExhausted == sentinelPage # 0

C18_ThreeStopReasons ==
    /\ pc \in {"finish", "parsing", "done", "thrown"} =>
         (CursorExhausted \/ BudgetReached \/ FetchExhausted)
    /\ (pc = "await" /\ fpc \in {"loop", "inflight", "settled", "sleeping"}) =>
         (~CursorExhausted /\ ~BudgetReached /\ ~FetchExhausted)
    /\ AbsentCursor(initialData.cursor) => attempts = 0
    /\ pc # "thrown"
    /\ pc = "done" => Returns(AllBatches)

(***************************************************************************)
(* C19.  Inter-page pause.  Every pause lasts 1000 ms; one pause has been  *)
(* made for each page that was appended and carried a cursor, and none     *)
(* else: while follow-up page n + 1 is being fetched exactly n pauses      *)
(* were made (none before the first follow-up fetch), and a sentinel or a  *)
(* page without a cursor is followed by no pause.                          *)
(***************************************************************************)
\* The follow-up pages the driver has taken over from the fetcher.
Processed == IF pc = "await" /\ fpc = "returned" /\ data # Sentinel THEN Len(got) - 1 ELSE Len(got)

PagesWithCursor == {k \in 1..Processed : Truthy(OptReplace(got[k].cursor))}

C19_InterPagePause ==
    /\ [](/\ \A i \in 1..Len(pauses) : pauses[i] = 1000
          /\ Len(pauses) = Cardinality(PagesWithCursor)
          /\ (pc = "await" /\ fpc \in {"loop", "inflight", "settled", "sleeping"}) =>
               Len(pauses) = Len(got)
          /\ pc = "pause" => (Len(pauses) = Len(got) /\ fpc = "idle"))
    /\ [][Len(pauses') > Len(pauses) =>
            /\ Len(pauses') = Len(pauses) + 1
            /\ pc = "await" /\ fpc = "returned" /\ NonEmptyPage(data)
            /\ Len(reviews') > Len(reviews)
            /\ Truthy(nextPage')]_vars

\* The second pause is under way; the first fetch was made with no pause before it.
C19_Witness ==
    /\ pc = "pause"
    /\ pauses = <<1000, 1000>>
    /\ Len(got) = 2
    /\ attempts > 2

(***************************************************************************)
(* C20.  Page counter.  Whenever the loop condition is evaluated the page  *)
(* number is 2 plus the number of follow-up pages appended, and the        *)
(* accumulated sequence is the concatenation of the first batch and those  *)
(* pages' batches, page number - 1 batches in all.  The counter starts at  *)
(* 2, goes up by 1 after each appended page that carries a cursor, and     *)
(* no step of fetchWithRetry changes it.                                   *)
(***************************************************************************)
C20_PageCounter ==
    /\ [](pc = "loop" =>
            /\ currentPage = 2 + Len(got)
            /\ 1 + Len(got) = currentPage - 1
            /\ reviews = AllBatches)
    /\ [][\/ (pc = "entry" /\ pc' = "loop" /\ currentPage' = 2)
          \/ (pc = "pause" /\ Truthy(nextPage) /\ reviews = AllBatches
                /\ currentPage' = currentPage + 1)
          \/ currentPage' = currentPage]_vars

\* The loop condition is evaluated for page 4 after retried fetches.
C20_Witness ==
    /\ pc = "loop"
    /\ currentPage = 4
    /\ Len(got) = 2
    /\ attempts > 2

====
